---- MODULE Spec2Model ----
(***************************************************************************)
(* Model of the invoice-extraction pipeline of src/app.py:                 *)
(*   document -> JPEG -> data URL -> model reply -> JSON record -> Excel.  *)
(*                                                                         *)
(* JSON values are tagged records of one shape, [tag, s, items], so that   *)
(* any two of them can be compared: a dict is an ORDERED sequence of       *)
(* [k, v] pairs (Python dicts keep insertion order, and pandas reads it),  *)
(* a list is a sequence of pairs whose k is "".                            *)
(*                                                                         *)
(* A model reply is a sequence of lexical tokens [kind, s]: the structural *)
(* characters { } [ ] and , ; "key" (a string literal followed by a        *)
(* colon), "str" (a string literal), "lit" (null or a number), "ws"        *)
(* (JSON whitespace) and "prose" (a word that is no JSON token: prose or   *)
(* a code-fence marker).  Keys, strings and prose words hold no braces.    *)
(***************************************************************************)
EXTENDS Integers, Sequences, FiniteSets, TLC

\* ------------------------------------------------------------------ bounds
MaxWrap == 2
MaxLines == 2
MaxPages == 2

\* --------------------------------------------------------------- JSON values
JStr(str) == [tag |-> "str", s |-> str, items |-> <<>>]
JNum(str) == [tag |-> "num", s |-> str, items |-> <<>>]
JNull == [tag |-> "null", s |-> "", items |-> <<>>]
NaN == [tag |-> "nan", s |-> "", items |-> <<>>]
Pair(key, val) == [k |-> key, v |-> val]
JDict(pairs) == [tag |-> "dict", s |-> "", items |-> pairs]
JList(vals) == [tag |-> "list", s |-> "", items |-> [i \in 1..Len(vals) |-> Pair("", vals[i])]]

HasKey(d, key) == \E i \in 1..Len(d.items) : d.items[i].k = key

\* dict.get(key, default)
Get(d, key, default) ==
  IF HasKey(d, key)
  THEN d.items[CHOOSE i \in 1..Len(d.items) : d.items[i].k = key].v
  ELSE default

\* d[key] = val on the pair sequence of a dict: a repeated key keeps its first
\* position and takes the last value.
DictSet(pairs, key, val) ==
  IF \E i \in 1..Len(pairs) : pairs[i].k = key
  THEN [i \in 1..Len(pairs) |-> IF pairs[i].k = key THEN Pair(key, val) ELSE pairs[i]]
  ELSE Append(pairs, Pair(key, val))

\* ------------------------------------------------------------------- tokens
Tok(kind, str) == [kind |-> kind, s |-> str]
LB == Tok("{", "")
RB == Tok("}", "")
LS == Tok("[", "")
RS == Tok("]", "")
Comma == Tok(",", "")
Ws == Tok("ws", "")
Key(str) == Tok("key", str)
Str(str) == Tok("str", str)
Lit(str) == Tok("lit", str)
Prose(str) == Tok("prose", str)

\* ------------------------------------------------------------- json.loads
ParseFail == [ok |-> FALSE, v |-> JNull, next |-> 0]
ParseOk(val, nxt) == [ok |-> TRUE, v |-> val, next |-> nxt]

RECURSIVE SkipWs(_, _)
SkipWs(t, i) == IF i <= Len(t) /\ t[i].kind = "ws" THEN SkipWs(t, i + 1) ELSE i

LitValue(str) == IF str = "null" THEN JNull ELSE JNum(str)

RECURSIVE ParseValue(_, _)
RECURSIVE ParseArray(_, _, _, _)
RECURSIVE ParseObject(_, _, _, _)

\* A value starting at token i (not whitespace).
ParseValue(t, i) ==
  IF i > Len(t) THEN ParseFail
  ELSE CASE t[i].kind = "str" -> ParseOk(JStr(t[i].s), i + 1)
         [] t[i].kind = "lit" -> ParseOk(LitValue(t[i].s), i + 1)
         [] t[i].kind = "[" -> ParseArray(t, SkipWs(t, i + 1), <<>>, TRUE)
         [] t[i].kind = "{" -> ParseObject(t, SkipWs(t, i + 1), <<>>, TRUE)
         [] OTHER -> ParseFail

\* The rest of an array, acc holding the elements read so far.
ParseArray(t, i, acc, first) ==
  IF i > Len(t) THEN ParseFail
  ELSE IF first /\ t[i].kind = "]" THEN ParseOk(JList(acc), i + 1)
  ELSE LET r == ParseValue(t, i)
           j == SkipWs(t, r.next)
       IN  IF ~r.ok \/ j > Len(t) THEN ParseFail
           ELSE IF t[j].kind = "]" THEN ParseOk(JList(Append(acc, r.v)), j + 1)
           ELSE IF t[j].kind = "," THEN ParseArray(t, SkipWs(t, j + 1), Append(acc, r.v), FALSE)
           ELSE ParseFail

\* The rest of an object, acc holding the pairs read so far.
ParseObject(t, i, acc, first) ==
  IF i > Len(t) THEN ParseFail
  ELSE IF first /\ t[i].kind = "}" THEN ParseOk(JDict(acc), i + 1)
  ELSE IF t[i].kind # "key" THEN ParseFail
  ELSE LET r == ParseValue(t, SkipWs(t, i + 1))
           j == SkipWs(t, r.next)
       IN  IF ~r.ok \/ j > Len(t) THEN ParseFail
           ELSE IF t[j].kind = "}" THEN ParseOk(JDict(DictSet(acc, t[i].s, r.v)), j + 1)
           ELSE IF t[j].kind = "," THEN ParseObject(t, SkipWs(t, j + 1), DictSet(acc, t[i].s, r.v), FALSE)
           ELSE ParseFail

\* json.loads(text): one value, whitespace around it, nothing else.
json_loads(t) ==
  LET r == ParseValue(t, SkipWs(t, 1))
  IN  IF r.ok /\ SkipWs(t, r.next) = Len(t) + 1 THEN r ELSE ParseFail

\* ------------------------------------------------- call_openai_vision, parsing
RECURSIVE LStrip(_)
LStrip(t) == IF t # <<>> /\ Head(t).kind = "ws" THEN LStrip(Tail(t)) ELSE t

RECURSIVE RStrip(_)
RStrip(t) == IF t # <<>> /\ t[Len(t)].kind = "ws" THEN RStrip(SubSeq(t, 1, Len(t) - 1)) ELSE t

\* str.strip()
strip(t) == RStrip(LStrip(t))

Positions(t, kind) == {i \in 1..Len(t) : t[i].kind = kind}
MinOf(S) == CHOOSE x \in S : \A y \in S : x <= y
MaxOf(S) == CHOOSE x \in S : \A y \in S : x >= y

\* Mutant of re_search: the lazy pattern \{.*?\}, which stops at the first "}".
re_search_lazy(t) ==
  LET opens == Positions(t, "{")
      after == {j \in Positions(t, "}") : opens # {} /\ j > MinOf(opens)}
  IN  IF after # {}
      THEN [found |-> TRUE, group |-> SubSeq(t, MinOf(opens), MinOf(after))]
      ELSE [found |-> FALSE, group |-> <<>>]

\* re.search(r"\{.*\}", content, flags=re.S): the leftmost "{" that has a "}" after
\* it, then greedily to the last "}" of the text.
re_search(t) ==
  LET opens == Positions(t, "{")
      closes == Positions(t, "}")
  IN  IF opens # {} /\ closes # {} /\ MinOf(opens) < MaxOf(closes)
      THEN [found |-> TRUE, group |-> SubSeq(t, MinOf(opens), MaxOf(closes))]
      ELSE [found |-> FALSE, group |-> <<>>]

SnippetLen == 300
Snippet(t) == SubSeq(t, 1, IF Len(t) < SnippetLen THEN Len(t) ELSE SnippetLen)

NoError == [kind |-> "", snippet |-> <<>>]
Raise(kind, snip) == [ok |-> FALSE, v |-> JNull, err |-> [kind |-> kind, snippet |-> snip]]
Return(val) == [ok |-> TRUE, v |-> val, err |-> NoError]

\* The inner json.loads of line 101 is not guarded: its JSONDecodeError leaves the
\* function as it is, without the "Reponse non JSON" message and its snippet.
interpret(rawText) ==
  LET content == strip(rawText)
      direct == json_loads(content)
      m == re_search(content)
      inner == json_loads(m.group)
  IN  IF direct.ok THEN Return(direct.v)
      ELSE IF m.found
           THEN IF inner.ok THEN Return(inner.v) ELSE Raise("JSONDecodeError", <<>>)
           ELSE Raise("ValueError: Reponse non JSON", Snippet(content))

\* ------------------------------------------------------------ the schema
HeaderFields == <<"fournisseur", "siren_ou_siret", "tva_intra", "client_nom",
                  "client_adresse", "numero_facture", "date_facture", "date_echeance",
                  "total_ht", "tva", "total_ttc", "devise">>
LineFields == <<"description", "quantite", "unite", "prix_unitaire_ht",
                "tva_pourcent", "total_ligne_ttc">>

Range(seq) == {seq[i] : i \in 1..Len(seq)}

\* ------------------------------------------------------------- pandas frames
\* A frame is its column labels and its rows, each row a cell per column.
Frame(cols, rows) == [columns |-> cols, rows |-> rows]

Keys(d) == [i \in 1..Len(d.items) |-> d.items[i].k]

RECURSIVE AddNew(_, _)
AddNew(cols, keys) ==
  IF keys = <<>> THEN cols
  ELSE AddNew(IF Head(keys) \in Range(cols) THEN cols ELSE Append(cols, Head(keys)), Tail(keys))

\* The columns pandas gives a list of dicts: the keys of all rows, each at its first
\* appearance.
RECURSIVE ColumnsOf(_, _)
ColumnsOf(dicts, cols) ==
  IF dicts = <<>> THEN cols ELSE ColumnsOf(Tail(dicts), AddNew(cols, Keys(Head(dicts))))

\* pd.DataFrame(list of dicts): one row per dict, NaN where a row lacks a column.
DataFrame(dicts) ==
  LET cols == ColumnsOf(dicts, <<>>)
  IN  Frame(cols, [i \in 1..Len(dicts) |-> [j \in 1..Len(cols) |-> Get(dicts[i], cols[j], NaN)]])

\* pd.DataFrame(columns=[...]): the labels and no row.
EmptyFrame(cols) == Frame(cols, <<>>)

\* DataFrame.empty: some axis has length 0.
IsEmpty(df) == Len(df.columns) = 0 \/ Len(df.rows) = 0

\* DataFrame.to_excel(xw, index=False, sheet_name=name): a header row and the data
\* rows; NaN and None are written as blank cells.
Blank == [tag |-> "blank", s |-> "", items |-> <<>>]
Cell(val) == IF val.tag \in {"nan", "null"} THEN Blank ELSE val
to_excel(df, name) ==
  [name |-> name, header |-> df.columns,
   rows |-> [i \in 1..Len(df.rows) |-> [j \in 1..Len(df.columns) |-> Cell(df.rows[i][j])]]]

\* ------------------------------------------------------ json_to_excel_bytes
\* Mutant of meta: a missing field defaults to None instead of "".
meta_none_default(data) == JDict([i \in 1..Len(HeaderFields) |-> Pair(HeaderFields[i], Get(data, HeaderFields[i], JNull))])

meta(data) == JDict([i \in 1..Len(HeaderFields) |-> Pair(HeaderFields[i], Get(data, HeaderFields[i], JStr("")))])

df_meta(data) == DataFrame(<<meta(data)>>)

lignes(data) ==
  LET got == Get(data, "lignes", JList(<<>>))
  IN  IF got.tag = "list" THEN [i \in 1..Len(got.items) |-> got.items[i].v] ELSE <<>>

df_lignes(data) == DataFrame(lignes(data))

MetaSheetName == "Facture"
LinesSheetName == "Lignes"

MetaSheet(data) == to_excel(df_meta(data), MetaSheetName)

\* Mutant of LinesSheet: the empty frame is written as it is, without the columns.
LinesSheet_as_is(data) == to_excel(df_lignes(data), LinesSheetName)

LinesSheet(data) ==
  IF ~IsEmpty(df_lignes(data))
  THEN to_excel(df_lignes(data), LinesSheetName)
  ELSE to_excel(EmptyFrame(LineFields), LinesSheetName)

NoSheets == <<>>

\* Mutant of json_to_excel_bytes: an empty line-item frame writes no second sheet.
json_to_excel_bytes_skip(data) ==
  IF data.tag # "dict"
  THEN [ok |-> FALSE, sheets |-> NoSheets, err |-> [kind |-> "AttributeError", snippet |-> <<>>]]
  ELSE [ok |-> TRUE,
        sheets |-> IF IsEmpty(df_lignes(data)) THEN <<MetaSheet(data)>> ELSE <<MetaSheet(data), LinesSheet(data)>>,
        err |-> NoError]

\* data.get on anything but a dict raises AttributeError (line 108).
json_to_excel_bytes(data) ==
  IF data.tag # "dict"
  THEN [ok |-> FALSE, sheets |-> NoSheets, err |-> [kind |-> "AttributeError", snippet |-> <<>>]]
  ELSE [ok |-> TRUE, sheets |-> <<MetaSheet(data), LinesSheet(data)>>, err |-> NoError]

\* str(value) inside an f-string.
PyStr(val) ==
  CASE val.tag = "str" -> val.s
    [] val.tag = "num" -> val.s
    [] val.tag = "null" -> "None"
    [] OTHER -> "<repr>"

\* f"facture_{data.get('numero_facture','extrait')}.xlsx", as its three parts.
FileName(data) == <<"facture_", PyStr(Get(data, "numero_facture", JStr("extrait"))), ".xlsx">>

\* ------------------------------------------------------ document normalizer
\* An uploaded file: its declared type, whether its bytes decode at all, and the
\* rasters decoding yields (the rendered pages of a PDF, the one picture of an image).
Raster(content, mode) == [content |-> content, mode |-> mode]
NoBytes == [format |-> "", quality |-> 0, content |-> "", mode |-> ""]

\* Image.save(buf, format="JPEG", quality=90)
save_jpeg(img) == [format |-> "JPEG", quality |-> 90, content |-> img.content, mode |-> img.mode]

\* Image.convert("RGB")
convert_rgb(img) == Raster(img.content, "RGB")

Failed(kind) == [ok |-> FALSE, bytes |-> NoBytes, err |-> [kind |-> kind, snippet |-> <<>>]]
Bytes(b) == [ok |-> TRUE, bytes |-> b, err |-> NoError]

\* Mutant of pdf_to_image_bytes: the last page instead of the first.
pdf_last_page(file) ==
  IF ~file.readable THEN Failed("pdf2image error")
  ELSE IF file.pages = <<>> THEN Failed("RuntimeError: PDF illisible")
  ELSE Bytes(save_jpeg(file.pages[Len(file.pages)]))

pdf_to_image_bytes(file) ==
  IF ~file.readable THEN Failed("pdf2image error")
  ELSE IF file.pages = <<>> THEN Failed("RuntimeError: PDF illisible")
  ELSE Bytes(save_jpeg(file.pages[1]))

image_file_to_bytes(file) ==
  IF ~file.readable THEN Failed("PIL.UnidentifiedImageError")
  ELSE Bytes(save_jpeg(convert_rgb(file.pages[1])))

\* The dispatch on f.type of lines 161-164.
normalize(file) ==
  IF file.type = "application/pdf" THEN pdf_to_image_bytes(file) ELSE image_file_to_bytes(file)

to_data_url(img) == [mime |-> "image/jpeg", encoding |-> "base64", payload |-> img]
NoUrl == to_data_url(NoBytes)

\* ----------------------------------------------------------------- inputs
\* Serialisation of a JSON value as the model would write it (tokens).
RECURSIVE Dump(_)
RECURSIVE DumpItems(_, _)
Dump(val) ==
  CASE val.tag = "str" -> <<Str(val.s)>>
    [] val.tag = "num" -> <<Lit(val.s)>>
    [] val.tag = "null" -> <<Lit("null")>>
    [] val.tag = "list" -> <<LS>> \o DumpItems(val.items, FALSE) \o <<RS>>
    [] val.tag = "dict" -> <<LB>> \o DumpItems(val.items, TRUE) \o <<RB>>
DumpItems(items, keyed) ==
  IF items = <<>> THEN <<>>
  ELSE (IF keyed THEN <<Key(Head(items).k)>> ELSE <<>>) \o Dump(Head(items).v)
       \o (IF Len(items) > 1 THEN <<Comma>> ELSE <<>>) \o DumpItems(Tail(items), keyed)

SeqsUpTo(S, n) == UNION {[1..m -> S] : m \in 0..n}

PageIds == {"page-a", "page-b"}
PdfFiles ==
  {[type |-> "application/pdf", readable |-> r, pages |-> ps] :
     r \in BOOLEAN, ps \in SeqsUpTo({Raster(c, "RGB") : c \in PageIds}, MaxPages)}
ImageFiles ==
  {[type |-> t, readable |-> r, pages |-> <<Raster("picture", m)>>] :
     t \in {"image/jpeg", "image/png"}, r \in BOOLEAN, m \in {"RGB", "RGBA", "P"}}
NoFile == [type |-> "", readable |-> FALSE, pages |-> <<>>]
Files == PdfFiles \cup ImageFiles \cup {NoFile}

\* Records a model may answer with.  Header values are strings, as the schema asks:
\* a field is absent, present and empty, or present with a value of its own.
SampleValue(key) == IF key = "numero_facture" THEN "INV-42" ELSE key
Valuations == {"sample", "empty"}
ValueOf(val, key) == IF val = "empty" THEN JStr("") ELSE JStr(SampleValue(key))
HeaderPairs(P, val) ==
  LET present == SelectSeq(HeaderFields, LAMBDA key : key \in P)
  IN  [i \in 1..Len(present) |-> Pair(present[i], ValueOf(val, present[i]))]

\* Line items are mappings: none, some or all of the six fields, in or out of the
\* schema's order, possibly with a key of their own.
Item(keys) == JDict([i \in 1..Len(keys) |-> Pair(keys[i], JStr(keys[i]))])
ItemShapes ==
  {Item(<<>>), Item(LineFields), Item(<<"description">>),
   Item(<<"quantite", "description">>), Item(<<"description", "remise">>)}
LignesValues ==
  {JNull, JStr("aucune"), JNum("0"), JDict(<<>>)}
    \cup {JList(items) : items \in SeqsUpTo(ItemShapes, MaxLines)}
LignesPairs == {<<>>} \cup {<<Pair("lignes", v)>> : v \in LignesValues}
BasicLignes ==
  {<<>>, <<Pair("lignes", JList(<<>>))>>, <<Pair("lignes", JList(<<Item(LineFields)>>))>>}
AllHeader == Range(HeaderFields)
Records ==
  {JDict(HeaderPairs(P, val) \o L) :
     P \in SUBSET AllHeader, val \in Valuations, L \in BasicLignes}
  \cup
  {JDict(HeaderPairs(P, val) \o L) :
     P \in {{}, {"numero_facture"}, AllHeader}, val \in Valuations, L \in LignesPairs}
RecordReplies == {Dump(r) : r \in Records}

\* Replies that wrap a JSON text, or something that is none, in up to MaxWrap tokens
\* on each side.
WrapTokens == {Prose("Sure!"), Ws, LB, RB, LS, RS}
Cores ==
  {<<>>,
   <<LB, RB>>,
   <<LB, Key("fournisseur"), Str("ACME"), RB>>,
   <<LB, Key("lignes"), LS, LB, RB, RS, RB>>,
   <<LS, RS>>,
   <<Str("ACME")>>,
   <<Lit("42")>>,
   <<LB, Prose("oops"), RB>>}
WrappedReplies ==
  {p \o c \o q : p \in SeqsUpTo(WrapTokens, MaxWrap), c \in Cores, q \in SeqsUpTo(WrapTokens, MaxWrap)}

\* The replies of the whole-pipeline specification.
FullRecord == JDict(HeaderPairs(AllHeader, "sample") \o <<Pair("lignes", JList(<<Item(LineFields)>>))>>)
Replies ==
  {Dump(FullRecord),
   Dump(JDict(HeaderPairs(AllHeader, "empty") \o <<Pair("lignes", JList(<<>>))>>)),
   Dump(JDict(HeaderPairs({"fournisseur"}, "sample"))),
   Dump(JDict(<<Pair("numero_facture", JNull)>>)),
   <<Prose("Sure!"), Ws, Prose("fence"), Ws>> \o Dump(JDict(HeaderPairs({"fournisseur"}, "sample")))
      \o <<Ws, Prose("fence")>>,
   <<Prose("I"), Ws, Prose("cannot"), Ws, Prose("process"), Ws, Prose("this"), Ws, Prose("request.")>>,
   <<Prose("Voici"), Ws, LB, Prose("non"), Ws, Prose("json"), RB>>,
   <<Ws, Prose("desole"), Ws>>,
   <<LS, RS>>,
   <<Lit("null")>>,
   <<Lit("42")>>,
   <<Str("ACME")>>}

\* ------------------------------------------------------------------ state
VARIABLES
  pc,          \* where the handler of the "Analyser" button stands
  f,           \* the uploaded file
  img_bytes,   \* the canonical JPEG
  data_url,    \* its data URL
  raw,         \* resp.choices[0].message.content
  data,        \* what call_openai_vision returned
  excel_bytes, \* the sheets of the workbook
  file_name,   \* the file name of the download button
  error,       \* the exception the handler caught
  shown,       \* what the page has displayed, in order
  calls        \* the stages run, in order

vars == <<pc, f, img_bytes, data_url, raw, data, excel_bytes, file_name, error, shown, calls>>

NoData == [tag |-> "unset", s |-> "", items |-> <<>>]
NoName == <<>>

Init ==
  /\ pc = "start"
  /\ f \in Files
  /\ img_bytes = NoBytes
  /\ data_url = NoUrl
  /\ raw = <<>>
  /\ data = NoData
  /\ excel_bytes = NoSheets
  /\ file_name = NoName
  /\ error = NoError
  /\ shown = <<>>
  /\ calls = <<>>

\* except Exception as e: st.error(...); st.info(...)
Except(err) ==
  /\ pc' = "failed"
  /\ error' = err
  /\ shown' = shown \o <<"error", "info">>

\* if not f: st.warning(...); st.stop()
WarnNoFile ==
  /\ pc = "start" /\ f = NoFile
  /\ pc' = "stopped"
  /\ shown' = Append(shown, "warning")
  /\ UNCHANGED <<f, img_bytes, data_url, raw, data, excel_bytes, file_name, error, calls>>

\* Lines 161-167: the JPEG of the file, then its preview.
Normalize ==
  /\ pc = "start" /\ f # NoFile
  /\ calls' = Append(calls, "normalize")
  /\ LET r == normalize(f)
     IN  \/ /\ r.ok
            /\ img_bytes' = r.bytes
            /\ shown' = Append(shown, "preview")
            /\ pc' = "normalized"
            /\ UNCHANGED error
         \/ /\ ~r.ok
            /\ Except(r.err)
            /\ UNCHANGED img_bytes
  /\ UNCHANGED <<f, data_url, raw, data, excel_bytes, file_name>>

\* Line 170 and the messages of lines 46-84.
BuildRequest ==
  /\ pc = "normalized"
  /\ calls' = Append(calls, "build")
  /\ data_url' = to_data_url(img_bytes)
  /\ pc' = "requested"
  /\ UNCHANGED <<f, img_bytes, raw, data, excel_bytes, file_name, error, shown>>

\* Lines 86-91: the completion call answers with a text, or raises.
InvokeModel ==
  /\ pc = "requested"
  /\ calls' = Append(calls, "invoke")
  /\ \/ /\ \E reply \in Replies : raw' = reply
        /\ pc' = "replied"
        /\ UNCHANGED <<error, shown>>
     \/ /\ Except([kind |-> "openai.APIError", snippet |-> <<>>])
        /\ UNCHANGED raw
  /\ UNCHANGED <<f, img_bytes, data_url, data, excel_bytes, file_name>>

\* Lines 93-102, then the display of the JSON (lines 175-176).
Interpret ==
  /\ pc = "replied"
  /\ calls' = Append(calls, "interpret")
  /\ LET r == interpret(raw)
     IN  \/ /\ r.ok
            /\ data' = r.v
            /\ shown' = Append(shown, "json")
            /\ pc' = "interpreted"
            /\ UNCHANGED error
         \/ /\ ~r.ok
            /\ Except(r.err)
            /\ UNCHANGED data
  /\ UNCHANGED <<f, img_bytes, data_url, raw, excel_bytes, file_name>>

\* Line 179.
Project ==
  /\ pc = "interpreted"
  /\ calls' = Append(calls, "project")
  /\ LET r == json_to_excel_bytes(data)
     IN  \/ /\ r.ok
            /\ excel_bytes' = r.sheets
            /\ pc' = "projected"
            /\ UNCHANGED <<error, shown>>
         \/ /\ ~r.ok
            /\ Except(r.err)
            /\ UNCHANGED excel_bytes
  /\ UNCHANGED <<f, img_bytes, data_url, raw, data, file_name>>

\* Lines 180-191: the download button and the recap table.
Download ==
  /\ pc = "projected"
  /\ file_name' = FileName(data)
  /\ shown' = shown \o <<"download", "recap">>
  /\ pc' = "done"
  /\ UNCHANGED <<f, img_bytes, data_url, raw, data, excel_bytes, error, calls>>

Next == WarnNoFile \/ Normalize \/ BuildRequest \/ InvokeModel \/ Interpret \/ Project \/ Download

Spec == Init /\ [][Next]_vars

\* The handler once the model has answered, for one file, with the replies drawn from
\* a set: the steps from the reply on are those of Next.
SampleFile == [type |-> "application/pdf", readable |-> TRUE, pages |-> <<Raster("page-a", "RGB")>>]

Replied(replies) ==
  /\ pc = "replied"
  /\ f = SampleFile
  /\ img_bytes = normalize(SampleFile).bytes
  /\ data_url = to_data_url(normalize(SampleFile).bytes)
  /\ raw \in replies
  /\ data = NoData
  /\ excel_bytes = NoSheets
  /\ file_name = NoName
  /\ error = NoError
  /\ shown = <<"preview">>
  /\ calls = <<"normalize", "build", "invoke">>

NextReplied == Interpret \/ Project \/ Download

InitRecords == Replied(RecordReplies)
SpecRecords == InitRecords /\ [][NextReplied]_vars

InitWrapped == Replied(WrappedReplies)
SpecWrapped == InitWrapped /\ [][NextReplied]_vars

\* ------------------------------------------------------------------ claims
Projected == pc \in {"projected", "done"}
Interpreted == pc \in {"interpreted", "projected", "done"} \/ (pc = "failed" /\ "project" \in Range(calls))
PairsOf(key) == {p \in Range(data.items) : p.k = key}
Present(key) == PairsOf(key) # {}
SheetNames == [i \in 1..Len(excel_bytes) |-> excel_bytes[i].name]

\* C1: the header sheet of every record has exactly one data row and exactly the
\* twelve header columns in the schema's order; a field the record lacks is the empty
\* string, a field it has carries the record's value unchanged.
C1_HeaderSheet ==
  Projected =>
    /\ Len(excel_bytes) >= 1
    /\ excel_bytes[1].header = HeaderFields
    /\ Len(excel_bytes[1].rows) = 1
    /\ \A i \in 1..Len(HeaderFields) :
         /\ ~Present(HeaderFields[i]) => excel_bytes[1].rows[1][i] = JStr("")
         /\ \A p \in PairsOf(HeaderFields[i]) : excel_bytes[1].rows[1][i] = p.v

\* C1 witness: a projected record that lacks some header fields and has others.
C1_Witness ==
  /\ pc = "done"
  /\ ~Present("tva") /\ ~Present("devise")
  /\ \E p \in PairsOf("numero_facture") : p.v = JStr("INV-42")
  /\ excel_bytes[1].rows[1][6] = JStr("INV-42")

\* C2 (as stated): the workbook of every record has exactly two sheets, named
\* "Invoice" and "Lines".
C2_Original == Projected => SheetNames = <<"Invoice", "Lines">>

\* C2 (amended): for every record, whatever its line items, projection succeeds and
\* the workbook has exactly two sheets, named "Facture" and "Lignes" in that order;
\* neither is ever omitted.
C2_TwoSheets ==
  /\ pc # "failed"
  /\ Projected => SheetNames = <<"Facture", "Lignes">>

\* C2 witness: a workbook written for a record whose line items are an empty list.
C2_Witness ==
  /\ pc = "done"
  /\ \E p \in PairsOf("lignes") : p.v = JList(<<>>)
  /\ Len(excel_bytes) = 2

\* The record's lignes value is absent, null, no list, or the empty list.
NoLines == \A p \in PairsOf("lignes") : p.v.tag # "list" \/ p.v.items = <<>>

\* C3: when lignes is absent, null, not a sequence or empty, the second sheet has no
\* data row and exactly the six line-item columns in the schema's order.
C3_EmptyLines ==
  (Projected /\ NoLines) =>
    /\ Len(excel_bytes) = 2
    /\ excel_bytes[2].header = LineFields
    /\ excel_bytes[2].rows = <<>>

\* C3 witness: a projected record whose lignes is null.
C3_Witness ==
  /\ pc = "done"
  /\ \E p \in PairsOf("lignes") : p.v = JNull
  /\ excel_bytes[2].header = LineFields

\* C4: when lignes is a non-empty sequence of n mappings, the second sheet has exactly
\* n data rows and exactly the six line-item columns in the schema's order.
C4_LineRows ==
  Projected =>
    \A p \in PairsOf("lignes") :
      (p.v.tag = "list" /\ p.v.items # <<>>) =>
        /\ excel_bytes[2].header = LineFields
        /\ Len(excel_bytes[2].rows) = Len(p.v.items)

\* No JSON value can be recovered from the reply: the direct parse of the trimmed
\* text fails, and there is no brace span or the greedy span does not parse.
Unrecoverable(t) ==
  /\ ~json_loads(strip(t)).ok
  /\ ~re_search(strip(t)).found \/ ~json_loads(re_search(strip(t)).group).ok

\* C5: a reply from which no JSON can be recovered makes interpret fail with the
\* "Reponse non JSON" error carrying the first 300 characters of the raw text, and
\* with no other error.
C5_Unparsable ==
  ("interpret" \in Range(calls) /\ Unrecoverable(raw)) =>
    /\ pc = "failed"
    /\ error.kind = "ValueError: Reponse non JSON"
    /\ error.snippet = Snippet(raw)

\* J is the text of a JSON object: it runs from a "{" to a "}" and parses.
IsObjectText(J) ==
  /\ J # <<>> /\ J[1].kind = "{" /\ J[Len(J)].kind = "}"
  /\ json_loads(J).ok
IsProse(t) == \A i \in 1..Len(t) : t[i].kind \in {"prose", "ws", "{", "}"}
IsBlank(t) == \A i \in 1..Len(t) : t[i].kind = "ws"
Prefix(t, i) == SubSeq(t, 1, i - 1)
Suffix(t, j) == SubSeq(t, j + 1, Len(t))
Recovers(J) == pc # "failed" /\ data = json_loads(J).v

\* C6 (as stated): for every reply prefix + J + suffix with J the text of a JSON
\* object and prose around it, interpret returns the object J denotes.
C6_Original ==
  "interpret" \in Range(calls) =>
    \A i \in 1..Len(raw) : \A j \in i..Len(raw) :
      (IsObjectText(SubSeq(raw, i, j)) /\ IsProse(Prefix(raw, i)) /\ IsProse(Suffix(raw, j)))
        => Recovers(SubSeq(raw, i, j))

\* C6 (amended): for every reply prefix + J + suffix with J the text of a JSON
\* object, a prefix holding no "{" and a suffix holding no "}", interpret returns the
\* object J denotes, unless the whole reply is itself a JSON text other than J.
C6_Wrapped ==
  "interpret" \in Range(calls) =>
    \A i \in 1..Len(raw) : \A j \in i..Len(raw) :
      ( /\ IsObjectText(SubSeq(raw, i, j))
        /\ Positions(Prefix(raw, i), "{") = {}
        /\ Positions(Suffix(raw, j), "}") = {}
        /\ \/ ~json_loads(strip(raw)).ok
           \/ IsBlank(Prefix(raw, i)) /\ IsBlank(Suffix(raw, j)) )
        => Recovers(SubSeq(raw, i, j))

\* C6 witness: an object between prose on both sides has been recovered.
C6_Witness ==
  /\ raw = <<Prose("Sure!"), Ws, LB, Key("fournisseur"), Str("ACME"), RB, Ws, Prose("Sure!")>>
  /\ pc = "interpreted"
  /\ data = JDict(<<Pair("fournisseur", JStr("ACME"))>>)

Stages == <<"normalize", "build", "invoke", "interpret", "project">>
UnreadableDocumentError == {"pdf2image error", "RuntimeError: PDF illisible", "PIL.UnidentifiedImageError"}
TransportError == {"openai.APIError"}
UnparsableResponseError == {"ValueError: Reponse non JSON"}

\* C7: the stages run in order, each at most once; a failed stage ends the run with
\* one of the three error kinds, and the caller has received neither the spreadsheet
\* nor the record.
C7_Pipeline ==
  /\ calls = SubSeq(Stages, 1, Len(calls))
  /\ pc = "failed" =>
       /\ error.kind \in UnreadableDocumentError \cup TransportError \cup UnparsableResponseError
       /\ excel_bytes = NoSheets
       /\ "download" \notin Range(shown)
       /\ "json" \notin Range(shown)

\* C8: the download is named facture_<n>.xlsx, n the record's invoice number, and
\* facture_extrait.xlsx when the record has none (absent or empty).
C8_FileName ==
  pc = "done" =>
    file_name = <<"facture_",
                  IF \E p \in PairsOf("numero_facture") : p.v.tag = "str" /\ p.v.s # ""
                  THEN (CHOOSE p \in PairsOf("numero_facture") : TRUE).v.s
                  ELSE "extrait",
                  ".xlsx">>

NormalizeFailed == pc = "failed" /\ calls = <<"normalize">>
JpegOfFirst == [format |-> "JPEG", quality |-> 90, content |-> f.pages[1].content, mode |-> "RGB"]

\* C9: normalizing a PDF fails with an unreadable-document error or yields the JPEG
\* of the first rendered page alone; zero pages always fail.  Any other type goes
\* through the image path and yields one JPEG as well.
C9_Normalize ==
  "normalize" \in Range(calls) =>
    \/ /\ NormalizeFailed
       /\ error.kind \in UnreadableDocumentError
       /\ img_bytes = NoBytes
    \/ /\ ~NormalizeFailed
       /\ f.pages # <<>>
       /\ img_bytes = JpegOfFirst

\* C9 witness: a two-page PDF with different pages went through the pipeline.
C9_Witness ==
  /\ pc = "done"
  /\ f.type = "application/pdf"
  /\ Len(f.pages) = 2 /\ f.pages[1] # f.pages[2]
  /\ img_bytes.content = f.pages[1].content

\* C10: what interpret returns is a mapping, so the field lookups of the projector
\* and of the file name never fail.
C10_Mapping ==
  /\ Interpreted => data.tag = "dict"
  /\ error.kind # "AttributeError"

====
